---- MODULE Spec2Model ----
(***************************************************************************)
(* Amazon SES webhook of django-anymail (anymail/webhooks/amazon_ses.py):  *)
(* an Amazon SNS envelope is posted to the view, which answers the 401     *)
(* challenge, validates the envelope against the SNS headers, confirms an  *)
(* SNS subscription, and normalizes an SES event into tracking events.     *)
(*                                                                         *)
(* Python values: a dict is a function from its keys (a missing key is not *)
(* in the DOMAIN), a list is a sequence, None in a string position is the  *)
(* string None, and a JSON value that is not an object is a record with a  *)
(* pytype field.  A text is [chars |-> s] for the literal characters s or  *)
(* [json |-> v] for the JSON serialization of the object v.                *)
(***************************************************************************)
EXTENDS Naturals, Sequences, FiniteSets, TLC

VARIABLES
    basic_auth,            \* self.basic_auth: a WEBHOOK_SECRET is configured
    auto_confirm_enabled,  \* self.auto_confirm_enabled
    request,               \* the HTTP request: META, body
    request_sns_message,   \* request._sns_message, the cached envelope
    pc,                    \* position of the request in post()
    response,              \* what post() returned or raised
    events,                \* what parse_events returned
    sent,                  \* events handed to the tracking signal
    validated,             \* validate_request returned without raising
    parse_calls,           \* values returned by _parse_sns_message, in order
    decodes,               \* times the raw body was decoded and json-parsed
    gets,                  \* outbound requests.get calls: the urls, in order
    get_answer,            \* what the outbound call answered
    ses_event,             \* normalizer input: the decoded SES event
    sns_message,           \* normalizer input: the envelope
    normalized             \* normalizer output

vars == <<basic_auth, auto_confirm_enabled, request, request_sns_message, pc,
          response, events, sent, validated, parse_calls, decodes, gets, get_answer,
          ses_event, sns_message, normalized>>

-----------------------------------------------------------------------------
(* Bounds of the checked inputs *)
MaxRecipients == 2
MaxHeaders == 2

-----------------------------------------------------------------------------
(* Python values *)
None == "None"
PyNone == [pytype |-> "NoneType"]
EmptyDict == <<>>

Get(d, k, default) == IF k \in DOMAIN d THEN d[k] ELSE default

IsDict(v) == "pytype" \notin DOMAIN v

Text(s) == [chars |-> s]
Dumps(v) == [json |-> v]
InvalidBytes == [bytes |-> "invalid"]

Opt(k, S) == {EmptyDict} \cup {k :> v : v \in S}

SeqsUpTo(S, n) == UNION {[1..k -> S] : k \in 0..n}

Raise(e) == [exc |-> e, events |-> <<>>]
Return(evs) == [exc |-> "none", events |-> evs]

VALIDATION_FAILURE == "AnymailWebhookValidationFailure"

\* request.body.decode(request.encoding or 'utf-8')
bytes_decode(body) ==
    IF "bytes" \in DOMAIN body
    THEN [exc |-> "UnicodeDecodeError", text |-> Text("")]
    ELSE [exc |-> "none", text |-> body]

\* json.loads of a body or of an SNS Message
json_loads(s) ==
    IF "pytype" \in DOMAIN s THEN [exc |-> "TypeError", value |-> PyNone]
    ELSE IF "json" \in DOMAIN s THEN [exc |-> "none", value |-> s.json]
    ELSE IF s.chars = "[]" THEN [exc |-> "none", value |-> [pytype |-> "list"]]
    ELSE IF s.chars = "null" THEN [exc |-> "none", value |-> PyNone]
    ELSE IF s.chars = "5" THEN [exc |-> "none", value |-> [pytype |-> "int"]]
    ELSE [exc |-> "ValueError", value |-> PyNone]

\* json.loads of a mail header value
json_loads_header(s) ==
    CASE s = "{\"k\": \"v1\"}" -> [exc |-> "none", value |-> [k |-> "v1"]]
      [] s = "{\"k\": \"v2\"}" -> [exc |-> "none", value |-> [k |-> "v2"]]
      [] s = "{}" -> [exc |-> "none", value |-> EmptyDict]
      [] OTHER -> [exc |-> "ValueError", value |-> EmptyDict]

\* str.lower
Lower(s) ==
    CASE s = "Bounce" -> "bounce"
      [] s = "Complaint" -> "complaint"
      [] s = "Delivery" -> "delivery"
      [] s = "Send" -> "send"
      [] s = "Reject" -> "reject"
      [] s = "Open" -> "open"
      [] s = "Click" -> "click"
      [] s = "Rendering Failure" -> "rendering failure"
      [] s = "Received" -> "received"
      [] s = "X-Tag" -> "x-tag"
      [] s = "X-Metadata" -> "x-metadata"
      [] s = "X-METADATA" -> "x-metadata"
      [] s = "Subject" -> "subject"
      [] OTHER -> s

\* django.utils.dateparse.parse_datetime: None for a string that is not a
\* datetime, ValueError for a well-formatted but impossible one
parse_datetime(s) ==
    CASE s = "2018-03-26T17:58:59.675Z"
           -> [exc |-> "none", value |-> "datetime(2018,3,26,17,58,59,675000,utc)"]
      [] s = "2018-13-45T25:00:00Z" -> [exc |-> "ValueError", value |-> None]
      [] OTHER -> [exc |-> "none", value |-> None]

\* anymail.utils.getfirst
RECURSIVE getfirst_from(_, _, _, _)
getfirst_from(dct, keys, default, i) ==
    IF i > Len(keys) THEN default
    ELSE IF keys[i] \in DOMAIN dct THEN dct[keys[i]]
    ELSE getfirst_from(dct, keys, default, i + 1)

getfirst(dct, keys, default) == getfirst_from(dct, keys, default, 1)

\* anymail.utils.combine, on dicts: a later dict's keys win
combine(common_props, recipient_props) == recipient_props @@ common_props

\* AnymailTrackingEvent(**kwargs): an attribute not given is None
AnymailTrackingEvent(kwargs) ==
    kwargs @@ [event_type |-> None, timestamp |-> None, event_id |-> None,
               esp_event |-> PyNone, click_url |-> None, description |-> None,
               message_id |-> None, metadata |-> EmptyDict, mta_response |-> None,
               recipient |-> None, reject_reason |-> None, tags |-> <<>>,
               user_agent |-> None]

-----------------------------------------------------------------------------
(* AmazonSESTrackingWebhookView.esp_to_anymail_events *)

\* lines 138-141
event_timestamp(sns) ==
    IF "Timestamp" \notin DOMAIN sns THEN None
    ELSE LET r == parse_datetime(sns["Timestamp"])
         IN IF r.exc = "ValueError" THEN None ELSE r.value

\* lines 155-158: the metadata after an x-metadata header of this value
load_metadata_reset(value, metadata) ==
    LET r == json_loads_header(value)
    IN IF r.exc = "none" THEN r.value ELSE EmptyDict

load_metadata(value, metadata) ==
    LET r == json_loads_header(value)
    IN IF r.exc = "none" THEN r.value ELSE metadata

\* lines 148-158, the loop over mail_object["headers"] from header i on
RECURSIVE scan_headers_from(_, _, _, _)
scan_headers_from(headers, i, metadata, tags) ==
    IF i > Len(headers) THEN [exc |-> "none", metadata |-> metadata, tags |-> tags]
    ELSE LET header == headers[i] IN
         IF "name" \notin DOMAIN header
         THEN [exc |-> "KeyError", metadata |-> metadata, tags |-> tags]
         ELSE LET name == Lower(header["name"]) IN
              IF name = "x-tag"
              THEN IF "value" \notin DOMAIN header
                   THEN [exc |-> "KeyError", metadata |-> metadata, tags |-> tags]
                   ELSE scan_headers_from(headers, i + 1, metadata,
                                          Append(tags, header["value"]))
              ELSE IF name = "x-metadata"
              THEN IF "value" \notin DOMAIN header
                   THEN scan_headers_from(headers, i + 1, metadata, tags)
                   ELSE scan_headers_from(headers, i + 1,
                                          load_metadata(header["value"], metadata),
                                          tags)
              ELSE scan_headers_from(headers, i + 1, metadata, tags)

scan_headers(headers) == scan_headers_from(headers, 1, EmptyDict, <<>>)

Fail(e) == [exc |-> e, update |-> EmptyDict, per_recipient |-> <<>>]

\* lines 182-185
bounce_recipient_props_swapped(event_object, all_recipients) ==
    [i \in 1..Len(all_recipients) |->
        [recipient |-> all_recipients[i], mta_response |-> None]]

bounce_recipient_props(event_object, all_recipients) ==
    [i \in 1..Len(event_object["bouncedRecipients"]) |->
        [recipient |-> event_object["bouncedRecipients"][i]["emailAddress"],
         mta_response |->
            Get(event_object["bouncedRecipients"][i], "diagnosticCode", None)]]

\* lines 235-240
unknown_props_no_value(ses_event_type) ==
    [event_type |-> "UNKNOWN", description |-> "Unknown SES eventType"]

unknown_props(ses_event_type) ==
    [event_type |-> "UNKNOWN",
     description |-> "Unknown SES eventType '" \o ses_event_type \o "'"]

\* lines 176-240: the subtype's update of common_props and its per_recipient_props
subtype_props(event, ses_event_type, event_object, all_recipients) ==
    LET default_recipients ==
            [i \in 1..Len(all_recipients) |-> [recipient |-> all_recipients[i]]]
    IN
    CASE ses_event_type = "Bounce" ->
           IF {"bounceType", "bounceSubType"} \subseteq DOMAIN event_object
           THEN IF /\ "bouncedRecipients" \in DOMAIN event_object
                   /\ \A i \in 1..Len(event_object["bouncedRecipients"]) :
                        "emailAddress" \in DOMAIN event_object["bouncedRecipients"][i]
                THEN [exc |-> "none",
                      update |-> [event_type |-> "BOUNCED",
                                  description |-> event_object["bounceType"] \o ": "
                                                  \o event_object["bounceSubType"],
                                  reject_reason |-> "BOUNCED"],
                      per_recipient |->
                          bounce_recipient_props(event_object, all_recipients)]
                ELSE Fail("KeyError")
           ELSE Fail("KeyError")
      [] ses_event_type = "Complaint" ->
           IF /\ "complainedRecipients" \in DOMAIN event_object
              /\ \A i \in 1..Len(event_object["complainedRecipients"]) :
                   "emailAddress" \in DOMAIN event_object["complainedRecipients"][i]
           THEN [exc |-> "none",
                 update |-> [event_type |-> "COMPLAINED",
                             description |->
                                 Get(event_object, "complaintFeedbackType", None),
                             reject_reason |-> "SPAM",
                             user_agent |-> Get(event_object, "userAgent", None)],
                 per_recipient |->
                     [i \in 1..Len(event_object["complainedRecipients"]) |->
                         [recipient |->
                            event_object["complainedRecipients"][i]["emailAddress"]]]]
           ELSE Fail("KeyError")
      [] ses_event_type = "Delivery" ->
           IF "recipients" \in DOMAIN event_object
           THEN [exc |-> "none",
                 update |-> [event_type |-> "DELIVERED",
                             mta_response |-> Get(event_object, "smtpResponse", None)],
                 per_recipient |->
                     [i \in 1..Len(event_object["recipients"]) |->
                         [recipient |-> event_object["recipients"][i]]]]
           ELSE Fail("KeyError")
      [] ses_event_type = "Send" ->
           [exc |-> "none", update |-> [event_type |-> "SENT"],
            per_recipient |-> default_recipients]
      [] ses_event_type = "Reject" ->
           IF "reason" \in DOMAIN event_object
           THEN [exc |-> "none",
                 update |-> [event_type |-> "REJECTED",
                             description |-> event_object["reason"],
                             reject_reason |-> "BLOCKED"],
                 per_recipient |-> default_recipients]
           ELSE Fail("KeyError")
      [] ses_event_type = "Open" ->
           [exc |-> "none",
            update |-> [event_type |-> "OPENED",
                        user_agent |-> Get(event_object, "userAgent", None)],
            per_recipient |-> default_recipients]
      [] ses_event_type = "Click" ->
           [exc |-> "none",
            update |-> [event_type |-> "CLICKED",
                        user_agent |-> Get(event_object, "userAgent", None),
                        click_url |-> Get(event_object, "link", None)],
            per_recipient |-> default_recipients]
      [] ses_event_type = "Rendering Failure" ->
           IF "failure" \in DOMAIN event /\ "errorMessage" \in DOMAIN event["failure"]
           THEN [exc |-> "none",
                 update |-> [event_type |-> "FAILED",
                             description |-> event["failure"]["errorMessage"]],
                 per_recipient |-> default_recipients]
           ELSE Fail("KeyError")
      [] OTHER ->
           [exc |-> "none", update |-> unknown_props(ses_event_type),
            per_recipient |-> default_recipients]

\* lines 132-246
esp_to_anymail_events(event, sns) ==
    IF ~IsDict(event) THEN Raise("AttributeError")
    ELSE
    LET event_id == Get(sns, "MessageId", None)
        timestamp == event_timestamp(sns)
        mail_object == Get(event, "mail", EmptyDict)
        message_id == Get(mail_object, "messageId", None)
        all_recipients == Get(mail_object, "destination", <<>>)
        scanned == scan_headers(Get(mail_object, "headers", <<>>))
        common_props == [esp_event |-> event, event_id |-> event_id,
                         message_id |-> message_id, metadata |-> scanned.metadata,
                         tags |-> scanned.tags, timestamp |-> timestamp]
        ses_event_type ==
            getfirst(event, <<"eventType", "notificationType">>, "<<type missing>>")
        event_object == Get(event, Lower(ses_event_type), EmptyDict)
        sub == subtype_props(event, ses_event_type, event_object, all_recipients)
    IN IF scanned.exc # "none" THEN Raise(scanned.exc)
       ELSE IF sub.exc # "none" THEN Raise(sub.exc)
       ELSE Return([i \in 1..Len(sub.per_recipient) |->
                       AnymailTrackingEvent(
                           combine(sub.update @@ common_props, sub.per_recipient[i]))])

-----------------------------------------------------------------------------
(* AmazonSESBaseWebhookView *)

\* lines 25-35; cache is request._sns_message
_parse_sns_message_uncached(req, cache) ==
    LET body == bytes_decode(req.body)
        parsed == json_loads(body.text)
    IN IF body.exc # "none" \/ parsed.exc # "none"
       THEN [exc |-> VALIDATION_FAILURE, value |-> PyNone, cache |-> cache,
             decoded |-> 1]
       ELSE [exc |-> "none", value |-> parsed.value,
             cache |-> [set |-> TRUE, value |-> parsed.value], decoded |-> 1]

_parse_sns_message(req, cache) ==
    IF cache.set
    THEN [exc |-> "none", value |-> cache.value, cache |-> cache, decoded |-> 0]
    ELSE LET body == bytes_decode(req.body)
             parsed == json_loads(body.text)
         IN IF body.exc # "none" \/ parsed.exc # "none"
            THEN [exc |-> VALIDATION_FAILURE, value |-> PyNone, cache |-> cache,
                  decoded |-> 1]
            ELSE [exc |-> "none", value |-> parsed.value,
                  cache |-> [set |-> TRUE, value |-> parsed.value], decoded |-> 1]

SNS_TYPES == {"Notification", "SubscriptionConfirmation", "UnsubscribeConfirmation"}

\* lines 40-55: the checks of the headers against the envelope sns
check_headers(req, sns) ==
    LET header_type == Get(req.META, "HTTP_X_AMZ_SNS_MESSAGE_TYPE", "<<missing>>")
        body_type == Get(sns, "Type", "<<missing>>")
        header_id == Get(req.META, "HTTP_X_AMZ_SNS_MESSAGE_ID", "<<missing>>")
        body_id == Get(sns, "MessageId", "<<missing>>")
    IN IF header_type # body_type THEN VALIDATION_FAILURE
       ELSE IF header_type \notin SNS_TYPES THEN VALIDATION_FAILURE
       ELSE IF header_id # body_id THEN VALIDATION_FAILURE
       ELSE "none"

\* lines 37-55
validate_request(req, cache) ==
    LET p == _parse_sns_message(req, cache)
    IN [call |-> p,
        exc |-> IF p.exc # "none" THEN p.exc
                ELSE IF ~IsDict(p.value) THEN "AttributeError"
                ELSE check_headers(req, p.value)]

\* lines 95-124; answer is what requests.get(SubscribeURL) does
auto_confirm_sns_subscription_unchecked(self, sns, answer) ==
    IF ~self.auto_confirm_enabled THEN [exc |-> "none", gets |-> <<>>]
    ELSE IF "SubscribeURL" \notin DOMAIN sns THEN [exc |-> "KeyError", gets |-> <<>>]
    ELSE [exc |-> IF answer = "ok" THEN "none"
                  ELSE IF answer = "error status" THEN VALIDATION_FAILURE
                  ELSE answer,
          gets |-> <<sns["SubscribeURL"]>>]

auto_confirm_sns_subscription(self, sns, answer) ==
    IF ~self.auto_confirm_enabled THEN [exc |-> "none", gets |-> <<>>]
    ELSE IF ~self.basic_auth THEN [exc |-> VALIDATION_FAILURE, gets |-> <<>>]
    ELSE IF "SubscribeURL" \notin DOMAIN sns THEN [exc |-> "KeyError", gets |-> <<>>]
    ELSE [exc |-> IF answer = "ok" THEN "none"
                  ELSE IF answer = "error status" THEN VALIDATION_FAILURE
                  ELSE answer,
          gets |-> <<sns["SubscribeURL"]>>]

VALIDATED_TOPIC ==
    Text("Successfully validated SNS topic for Amazon SES event publishing.")

\* lines 76-86: the Notification branch of parse_events
parse_notification(sns) ==
    LET message_string == Get(sns, "Message", PyNone)
        loaded == json_loads(message_string)
    IN IF loaded.exc # "none"
       THEN IF message_string = VALIDATED_TOPIC THEN Return(<<>>)
            ELSE Raise(VALIDATION_FAILURE)
       ELSE esp_to_anymail_events(loaded.value, sns)

\* lines 75-90: parse_events on the envelope sns
parse_envelope_confirm_others(self, sns, answer) ==
    LET sns_type == Get(sns, "Type", None)
    IN IF sns_type = "Notification"
       THEN parse_notification(sns) @@ [gets |-> <<>>]
       ELSE LET c == auto_confirm_sns_subscription(self, sns, answer)
            IN [exc |-> c.exc, events |-> <<>>, gets |-> c.gets]

parse_envelope(self, sns, answer) ==
    LET sns_type == Get(sns, "Type", None)
    IN IF sns_type = "Notification"
       THEN parse_notification(sns) @@ [gets |-> <<>>]
       ELSE IF sns_type = "SubscriptionConfirmation"
       THEN LET c == auto_confirm_sns_subscription(self, sns, answer)
            IN [exc |-> c.exc, events |-> <<>>, gets |-> c.gets]
       ELSE [exc |-> "none", events |-> <<>>, gets |-> <<>>]

\* lines 71-90
parse_events(self, req, cache, answer) ==
    LET p == _parse_sns_message(req, cache)
    IN IF p.exc # "none"
       THEN [call |-> p, exc |-> p.exc, events |-> <<>>, gets |-> <<>>]
       ELSE IF ~IsDict(p.value)
       THEN [call |-> p, exc |-> "AttributeError", events |-> <<>>, gets |-> <<>>]
       ELSE [call |-> p] @@ parse_envelope(self, p.value, answer)

-----------------------------------------------------------------------------
(* The checked inputs *)

Addresses == {"a@x.com", "b@x.com"}

Recipients == SeqsUpTo(Addresses, MaxRecipients)

MailHeaders ==
    {[name |-> "X-Tag", value |-> "t1"],
     [name |-> "X-Metadata", value |-> "{\"k\": \"v1\"}"],
     [name |-> "X-METADATA", value |-> "{\"k\": \"v2\"}"],
     [name |-> "x-metadata", value |-> "not json"],
     [name |-> "Subject", value |-> "hi"]}

Mails ==
    {[messageId |-> "msg1"] @@ d @@ h :
        d \in Opt("destination", Recipients),
        h \in Opt("headers", SeqsUpTo(MailHeaders, MaxHeaders))}

SimpleMails ==
    {[messageId |-> "msg1", destination |-> <<"a@x.com", "b@x.com">>],
     [messageId |-> "msg1", destination |-> <<"b@x.com">>,
      headers |-> <<[name |-> "X-Tag", value |-> "t1"],
                    [name |-> "x-metadata", value |-> "not json"]>>]}

BouncedRecipients ==
    {[emailAddress |-> "a@x.com", diagnosticCode |-> "smtp; 550 unknown user"],
     [emailAddress |-> "b@x.com"],
     [diagnosticCode |-> "smtp; 554 rejected"]}

BounceDetails ==
    {t @@ u @@ r :
        t \in Opt("bounceType", {"Permanent"}),
        u \in Opt("bounceSubType", {"General"}),
        r \in Opt("bouncedRecipients", SeqsUpTo(BouncedRecipients, MaxRecipients))}

ComplaintDetails ==
    {f @@ r :
        f \in Opt("complaintFeedbackType", {"abuse"}),
        r \in Opt("complainedRecipients",
                  SeqsUpTo({[emailAddress |-> "a@x.com"], [userId |-> "7"]}, 1))}

DeliveryDetails ==
    {m @@ r : m \in Opt("smtpResponse", {"250 OK"}), r \in Opt("recipients", Recipients)}

EventTypes ==
    {"Bounce", "Complaint", "Delivery", "Send", "Reject", "Open", "Click",
     "Rendering Failure"}

SubTypes == EventTypes \cup {"bounce", "Received"}

\* the subtype-specific objects that may come with an event
Details ==
    UNION {Opt("bounce", BounceDetails),
           Opt("complaint", ComplaintDetails),
           Opt("delivery", DeliveryDetails),
           Opt("reject", Opt("reason", {"Bad content"})),
           Opt("open", Opt("userAgent", {"Mozilla"})),
           Opt("click", Opt("userAgent", {"Mozilla"}) \cup
                        {[userAgent |-> "Mozilla", link |-> "https://x.com/"]}),
           Opt("failure", Opt("errorMessage", {"Attribute is not present"})),
           Opt("received", {[origin |-> "smtp"]})}

SimpleDetails ==
    {EmptyDict,
     [bounce |-> [bounceType |-> "Permanent", bounceSubType |-> "General",
                  bouncedRecipients |->
                      <<[emailAddress |-> "b@x.com"],
                        [emailAddress |-> "a@x.com",
                         diagnosticCode |-> "smtp; 550 unknown user"]>>]],
     [delivery |-> [smtpResponse |-> "250 OK", recipients |-> <<"a@x.com">>]]}

TypeFields ==
    {EmptyDict} \cup {[eventType |-> t] : t \in SubTypes}
                \cup {[notificationType |-> t] : t \in SubTypes}
                \cup {[eventType |-> "Received", notificationType |-> "Bounce"],
                      [eventType |-> "Bounce", notificationType |-> "Received"]}

SimpleTypeFields ==
    {EmptyDict, [eventType |-> "Bounce"], [eventType |-> "Send"],
     [notificationType |-> "Delivery"], [eventType |-> "Received"]}

\* SES events: every subtype and detail on simple mails, and every mail on
\* simple subtypes and details
SesEvents ==
    {t @@ m @@ d : t \in TypeFields, m \in Opt("mail", SimpleMails), d \in Details}
    \cup {t @@ m @@ d : t \in SimpleTypeFields, m \in Opt("mail", Mails),
                        d \in SimpleDetails}

Timestamps == {"2018-03-26T17:58:59.675Z", "2018-13-45T25:00:00Z", "yesterday"}

Envelopes == {[Type |-> "Notification", MessageId |-> "m1"] @@ t :
                 t \in Opt("Timestamp", Timestamps)}

\* SES events that arrive through the view
PostedSesEvents ==
    {[eventType |-> "Delivery",
      mail |-> [messageId |-> "msg1", destination |-> <<"a@x.com", "b@x.com">>,
                headers |-> <<>>],
      delivery |-> [smtpResponse |-> "250 OK",
                    recipients |-> <<"a@x.com", "b@x.com">>]],
     [notificationType |-> "Bounce",
      mail |-> [messageId |-> "msg1", destination |-> <<"a@x.com", "b@x.com">>],
      bounce |-> [bounceType |-> "Permanent", bounceSubType |-> "General",
                  bouncedRecipients |-> <<[emailAddress |-> "b@x.com"]>>]],
     [notificationType |-> "Bounce",
      mail |-> [messageId |-> "msg1", destination |-> <<"a@x.com">>],
      bounce |-> [bouncedRecipients |-> <<[emailAddress |-> "a@x.com"]>>]],
     [eventType |-> "Received",
      mail |-> [messageId |-> "msg1", destination |-> <<"a@x.com">>]],
     [eventType |-> "Send"]}

Messages ==
    {VALIDATED_TOPIC, Text("not json"), Text("[]"), Text("null"),
     [pytype |-> "int"]}
    \cup {Dumps(e) : e \in PostedSesEvents}

BodyTypes ==
    {"Notification", "SubscriptionConfirmation", "UnsubscribeConfirmation",
     "Other", "<<missing>>"}

MessageIds == {"m1", "<<missing>>"}

SubscribeURLs == {"https://sns.amazonaws.com/?Action=ConfirmSubscription"}

\* SNS envelopes: Message comes with a Notification, SubscribeURL with a
\* SubscriptionConfirmation or an UnsubscribeConfirmation
SnsMessages ==
    {t @@ i :
        t \in Opt("Type", {"Other", "<<missing>>"}),
        i \in Opt("MessageId", MessageIds)}
    \cup {[Type |-> "Notification"] @@ i @@ x :
        i \in Opt("MessageId", MessageIds), x \in Opt("Message", Messages)}
    \cup {[Type |-> t] @@ i @@ x :
        t \in {"SubscriptionConfirmation", "UnsubscribeConfirmation"},
        i \in Opt("MessageId", MessageIds),
        x \in Opt("SubscribeURL", SubscribeURLs)}

Bodies ==
    {InvalidBytes, Text("not json"), Text("[]"), Text("null")}
    \cup {Dumps(m) : m \in SnsMessages}

Metas ==
    {a @@ t @@ i :
        a \in Opt("HTTP_AUTHORIZATION", {"", "Basic good", "Basic bad"}),
        t \in Opt("HTTP_X_AMZ_SNS_MESSAGE_TYPE", BodyTypes),
        i \in Opt("HTTP_X_AMZ_SNS_MESSAGE_ID", MessageIds \cup {"m2"})}

Requests == {[META |-> m, body |-> b] : m \in Metas, b \in Bodies}

Answers == {"ok", "error status", "ConnectionError"}

NoResponse == [status |-> 0, www_authenticate |-> None, exc |-> "none"]
NoCache == [set |-> FALSE]
NotNormalized == Raise("not called")

-----------------------------------------------------------------------------
(* The view handling one request: AmazonSESBaseWebhookView.post *)

self == [basic_auth |-> basic_auth, auto_confirm_enabled |-> auto_confirm_enabled]

Init ==
    /\ basic_auth \in BOOLEAN
    /\ auto_confirm_enabled \in BOOLEAN
    /\ request \in Requests
    /\ request_sns_message = NoCache
    /\ pc = "post"
    /\ response = NoResponse
    /\ events = <<>>
    /\ sent = <<>>
    /\ validated = FALSE
    /\ parse_calls = <<>>
    /\ decodes = 0
    /\ gets = <<>>
    /\ get_answer = "none"
    /\ ses_event = EmptyDict
    /\ sns_message = EmptyDict
    /\ normalized = NotNormalized

Raised(e) == [status |-> 0, www_authenticate |-> None, exc |-> e]

\* lines 62-69 without the 401 challenge
post_unchallenged ==
    /\ pc = "post"
    /\ pc' = "run_validators"
    /\ UNCHANGED <<basic_auth, auto_confirm_enabled, request, request_sns_message,
                   response, events, sent, validated, parse_calls, decodes, gets,
                   get_answer, ses_event, sns_message, normalized>>

\* lines 62-69
post ==
    /\ pc = "post"
    /\ IF basic_auth /\ Get(request.META, "HTTP_AUTHORIZATION", "") = ""
       THEN /\ response' = [status |-> 401,
                            www_authenticate |-> "Basic realm=\"Anymail WEBHOOK_SECRET\"",
                            exc |-> "none"]
            /\ pc' = "done"
       ELSE /\ pc' = "run_validators"
            /\ UNCHANGED response
    /\ UNCHANGED <<basic_auth, auto_confirm_enabled, request, request_sns_message,
                   events, sent, validated, parse_calls, decodes, gets, get_answer,
                   ses_event, sns_message, normalized>>

\* AnymailBasicAuthMixin.validate_request, the first of run_validators
validate_basic_auth ==
    /\ pc = "run_validators"
    /\ IF basic_auth /\ Get(request.META, "HTTP_AUTHORIZATION", "") # "Basic good"
       THEN /\ response' = Raised(VALIDATION_FAILURE)
            /\ pc' = "done"
       ELSE /\ pc' = "validate_request"
            /\ UNCHANGED response
    /\ UNCHANGED <<basic_auth, auto_confirm_enabled, request, request_sns_message,
                   events, sent, validated, parse_calls, decodes, gets, get_answer,
                   ses_event, sns_message, normalized>>

\* lines 37-55, called by run_validators
do_validate_request ==
    /\ pc = "validate_request"
    /\ LET r == validate_request(request, request_sns_message)
       IN /\ request_sns_message' = r.call.cache
          /\ parse_calls' = Append(parse_calls, [exc |-> r.call.exc, value |-> r.call.value])
          /\ decodes' = decodes + r.call.decoded
          /\ IF r.exc = "none"
             THEN /\ validated' = TRUE
                  /\ pc' = "parse_events"
                  /\ UNCHANGED response
             ELSE /\ response' = Raised(r.exc)
                  /\ pc' = "done"
                  /\ UNCHANGED validated
    /\ UNCHANGED <<basic_auth, auto_confirm_enabled, request, events, sent, gets,
                   get_answer, ses_event, sns_message, normalized>>

\* lines 71-90, called by AnymailBaseWebhookView.post
do_parse_events ==
    /\ pc = "parse_events"
    /\ \E answer \in Answers :
         LET r == parse_events(self, request, request_sns_message, answer)
         IN /\ request_sns_message' = r.call.cache
            /\ parse_calls' = Append(parse_calls, [exc |-> r.call.exc, value |-> r.call.value])
            /\ decodes' = decodes + r.call.decoded
            /\ gets' = gets \o r.gets
            /\ get_answer' = IF r.gets = <<>> THEN "none" ELSE answer
            /\ IF r.exc = "none"
               THEN /\ events' = r.events
                    /\ pc' = "send"
                    /\ UNCHANGED response
               ELSE /\ response' = Raised(r.exc)
                    /\ pc' = "done"
                    /\ UNCHANGED events
    /\ UNCHANGED <<basic_auth, auto_confirm_enabled, request, sent, validated,
                   ses_event, sns_message, normalized>>

\* AnymailBaseWebhookView.post: each event to the signal, then HttpResponse()
send_events ==
    /\ pc = "send"
    /\ sent' = events
    /\ response' = [status |-> 200, www_authenticate |-> None, exc |-> "none"]
    /\ pc' = "done"
    /\ UNCHANGED <<basic_auth, auto_confirm_enabled, request, request_sns_message,
                   events, validated, parse_calls, decodes, gets, get_answer,
                   ses_event, sns_message, normalized>>

Next == post \/ validate_basic_auth \/ do_validate_request \/ do_parse_events
        \/ send_events

Spec == Init /\ [][Next]_vars

-----------------------------------------------------------------------------
(* The normalizer alone, on every checked SES event *)

InitNormalize ==
    /\ basic_auth = TRUE
    /\ auto_confirm_enabled = TRUE
    /\ request = [META |-> EmptyDict, body |-> Text("")]
    /\ request_sns_message = NoCache
    /\ pc = "normalize"
    /\ response = NoResponse
    /\ events = <<>>
    /\ sent = <<>>
    /\ validated = TRUE
    /\ parse_calls = <<>>
    /\ decodes = 0
    /\ gets = <<>>
    /\ get_answer = "none"
    /\ ses_event \in SesEvents
    /\ sns_message \in Envelopes
    /\ normalized = NotNormalized

normalize ==
    /\ pc = "normalize"
    /\ normalized' = esp_to_anymail_events(ses_event, sns_message)
    /\ pc' = "normalized"
    /\ UNCHANGED <<basic_auth, auto_confirm_enabled, request, request_sns_message,
                   response, events, sent, validated, parse_calls, decodes, gets,
                   get_answer, ses_event, sns_message>>

NextNormalize == normalize

SpecNormalize == InitNormalize /\ [][NextNormalize]_vars

-----------------------------------------------------------------------------
(* Properties of the view *)

Challenge ==
    [status |-> 401, www_authenticate |-> "Basic realm=\"Anymail WEBHOOK_SECRET\"",
     exc |-> "none"]

NoAuthorization == Get(request.META, "HTTP_AUTHORIZATION", "") = ""

\* the envelope of the request, once decoded to a JSON object
Decoded == request_sns_message.set /\ IsDict(request_sns_message.value)

EnvelopeType == Get(request_sns_message.value, "Type", None)

ParseEventsRan == Len(parse_calls) = 2

\* C1, as amended: a validated SubscriptionConfirmation processed while no
\* shared secret is configured never causes an outbound call and yields no
\* event; with auto-confirm enabled it ends in a validation failure whatever
\* the SubscribeURL would answer, with auto-confirm disabled it is a no-op
\* and the request succeeds.
C1_HandshakeNeedsSecret ==
    (ParseEventsRan /\ Decoded /\ EnvelopeType = "SubscriptionConfirmation"
        /\ ~basic_auth)
    => /\ gets = <<>>
       /\ events = <<>>
       /\ auto_confirm_enabled
            => (pc = "done" /\ response = Raised(VALIDATION_FAILURE))
       /\ ~auto_confirm_enabled
            => (response.exc = "none" /\ (pc = "done" => response.status = 200))

C1_Witness ==
    /\ pc = "done" /\ ParseEventsRan /\ Decoded
    /\ EnvelopeType = "SubscriptionConfirmation"
    /\ "SubscribeURL" \in DOMAIN request_sns_message.value
    /\ ~basic_auth /\ auto_confirm_enabled
    /\ response = Raised(VALIDATION_FAILURE)

\* C1, as stated: a validated SubscriptionConfirmation processed while no
\* shared secret is configured ends in a validation failure for every value
\* of the auto-confirm toggle.
C1_AlwaysFails ==
    (pc = "done" /\ ParseEventsRan /\ Decoded
        /\ EnvelopeType = "SubscriptionConfirmation" /\ ~basic_auth)
    => response = Raised(VALIDATION_FAILURE)

\* C2: the outbound GET is issued at most once per request, only to the
\* SubscribeURL of a validated SubscriptionConfirmation envelope with
\* auto-confirm enabled and a shared secret configured; a non-success answer
\* ends the request in a validation failure with no second GET.
C2_ConfirmationFetchGated ==
    /\ Len(gets) <= 1
    /\ gets # <<>>
         => /\ validated /\ Decoded /\ ParseEventsRan
            /\ EnvelopeType = "SubscriptionConfirmation"
            /\ EnvelopeType \notin {"Notification", "UnsubscribeConfirmation"}
            /\ auto_confirm_enabled /\ basic_auth
            /\ gets = <<request_sns_message.value["SubscribeURL"]>>
            /\ events = <<>>
            /\ get_answer = "error status"
                 => (pc = "done" /\ response = Raised(VALIDATION_FAILURE))

C2_Witness ==
    /\ pc = "done" /\ Len(gets) = 1 /\ get_answer = "error status"
    /\ response = Raised(VALIDATION_FAILURE)

Differs(d, k, e, l) ==
    \/ (k \in DOMAIN d) # (l \in DOMAIN e)
    \/ (k \in DOMAIN d /\ l \in DOMAIN e /\ d[k] # e[l])

\* C3, as stated: when the x-amz-sns-message-type header differs from the
\* body's Type, or the x-amz-sns-message-id header from the body's MessageId
\* (absent on one side and present on the other is differing), validate_request
\* raises a validation failure and the request produces no event.
C3_HeaderBodyConsistency ==
    (parse_calls # <<>> /\ Decoded
        /\ \/ Differs(request.META, "HTTP_X_AMZ_SNS_MESSAGE_TYPE",
                      request_sns_message.value, "Type")
           \/ Differs(request.META, "HTTP_X_AMZ_SNS_MESSAGE_ID",
                      request_sns_message.value, "MessageId"))
    => /\ ~validated
       /\ pc = "done" /\ response = Raised(VALIDATION_FAILURE)
       /\ events = <<>> /\ sent = <<>>

\* C4: with a shared secret configured and no Authorization header, post
\* returns 401 with the WWW-Authenticate Basic realm challenge, and nothing
\* of the request is decoded, validated, normalized or fetched before or
\* after it.
C4_ChallengeFirst ==
    (basic_auth /\ NoAuthorization)
    => /\ pc \in {"post", "done"}
       /\ pc = "done" => response = Challenge
       /\ decodes = 0 /\ parse_calls = <<>> /\ ~request_sns_message.set
       /\ ~validated /\ events = <<>> /\ sent = <<>> /\ gets = <<>>

C4_Witness ==
    /\ basic_auth /\ "HTTP_AUTHORIZATION" \notin DOMAIN request.META
    /\ pc = "done" /\ response = Challenge
    /\ "json" \in DOMAIN request.body

\* a body that is not decodable, not JSON, or JSON but not an object
Malformed(body) == "json" \notin DOMAIN body

\* C5, as stated: a request whose body is not decodable, not JSON, or JSON
\* that is not an object fails with AnymailWebhookValidationFailure, with no
\* event and no outbound call.
C5_MalformedEnvelope ==
    (pc = "done" /\ parse_calls # <<>> /\ Malformed(request.body))
    => /\ response = Raised(VALIDATION_FAILURE)
       /\ events = <<>> /\ sent = <<>> /\ gets = <<>>

message_string == Get(request_sns_message.value, "Message", PyNone)

\* Message absent, not JSON, or JSON that is not an object
NoApplicationEvent ==
    \/ json_loads(message_string).exc # "none"
    \/ ~IsDict(json_loads(message_string).value)

\* C6, as stated: for a validated Notification whose Message does not decode
\* to an Application Event, parse_events returns no event without error iff
\* Message is the topic-validation string, and otherwise raises
\* AnymailWebhookValidationFailure.
C6_UnparsableMessage ==
    (ParseEventsRan /\ Decoded /\ EnvelopeType = "Notification"
        /\ NoApplicationEvent)
    => /\ events = <<>> /\ sent = <<>>
       /\ IF message_string = VALIDATED_TOPIC
          THEN response.exc = "none"
          ELSE pc = "done" /\ response = Raised(VALIDATION_FAILURE)

-----------------------------------------------------------------------------
(* Properties of the normalizer *)

Normalized == pc = "normalized"

\* the event subtype: eventType, else notificationType, else the sentinel
Subtype ==
    IF "eventType" \in DOMAIN ses_event THEN ses_event["eventType"]
    ELSE IF "notificationType" \in DOMAIN ses_event THEN ses_event["notificationType"]
    ELSE "<<type missing>>"

Mail == IF "mail" \in DOMAIN ses_event THEN ses_event["mail"] ELSE EmptyDict
Destination == IF "destination" \in DOMAIN Mail THEN Mail["destination"] ELSE <<>>
Headers == IF "headers" \in DOMAIN Mail THEN Mail["headers"] ELSE <<>>
Bounce == IF "bounce" \in DOMAIN ses_event THEN ses_event["bounce"] ELSE EmptyDict

AllHave(list, key) == \A i \in 1..Len(list) : key \in DOMAIN list[i]

Has(d, key, sub) == key \in DOMAIN d /\ sub \in DOMAIN d[key]

\* the fields the subtype's branch reads with [] are all there
RequiredPresent ==
    CASE Subtype = "Bounce" ->
           /\ {"bounceType", "bounceSubType", "bouncedRecipients"} \subseteq DOMAIN Bounce
           /\ AllHave(Bounce["bouncedRecipients"], "emailAddress")
      [] Subtype = "Complaint" ->
           /\ Has(ses_event, "complaint", "complainedRecipients")
           /\ AllHave(ses_event["complaint"]["complainedRecipients"], "emailAddress")
      [] Subtype = "Delivery" -> Has(ses_event, "delivery", "recipients")
      [] Subtype = "Reject" -> Has(ses_event, "reject", "reason")
      [] Subtype = "Rendering Failure" -> Has(ses_event, "failure", "errorMessage")
      [] OTHER -> TRUE

\* the events are the K bounced recipients, in order, alike in the shared fields
BounceEvents ==
    LET evs == normalized.events
        entries == Bounce["bouncedRecipients"]
    IN /\ Len(evs) = Len(entries)
       /\ \A i \in 1..Len(evs) :
            /\ evs[i].event_type = "BOUNCED"
            /\ evs[i].reject_reason = "BOUNCED"
            /\ evs[i].recipient = entries[i]["emailAddress"]
            /\ evs[i].mta_response =
                 (IF "diagnosticCode" \in DOMAIN entries[i]
                  THEN entries[i]["diagnosticCode"] ELSE None)
            /\ evs[i].event_id = "m1"
            /\ evs[i].message_id = (IF "mail" \in DOMAIN ses_event THEN "msg1" ELSE None)
            /\ evs[i].description = "Permanent: General"
            /\ \A j \in 1..Len(evs) :
                 /\ evs[i].event_id = evs[j].event_id
                 /\ evs[i].message_id = evs[j].message_id
                 /\ evs[i].timestamp = evs[j].timestamp
                 /\ evs[i].tags = evs[j].tags
                 /\ evs[i].metadata = evs[j].metadata
                 /\ evs[i].description = evs[j].description

\* C7, as amended: a Bounce notification whose bounce detail carries
\* bounceType, bounceSubType and K bouncedRecipients entries that each carry
\* emailAddress produces exactly K events, in the order of that list and
\* whatever the mail's destination list: each BOUNCED with reject_reason
\* BOUNCED, the i-th with the i-th entry's emailAddress and diagnosticCode
\* (None when it has none), all sharing event_id, message_id, timestamp, tags,
\* metadata and description.  A Bounce notification that lacks one of these
\* fields raises KeyError and produces no event.
C7_BounceFanOut ==
    (Normalized /\ Subtype = "Bounce")
    => IF RequiredPresent THEN normalized.exc = "none" /\ BounceEvents
       ELSE normalized = Raise("KeyError")

C7_Witness ==
    /\ Normalized /\ Subtype = "Bounce" /\ RequiredPresent
    /\ Len(Bounce["bouncedRecipients"]) = 2
    /\ Len(Destination) = 1
    /\ Len(normalized.events) = 2
    /\ normalized.events[1].mta_response = None
    /\ normalized.events[2].mta_response = "smtp; 550 unknown user"

\* C7, as stated: a Bounce notification whose bounce detail lists K
\* bouncedRecipients entries produces exactly K events.
C7_EveryBounceFansOut ==
    (Normalized /\ Subtype = "Bounce" /\ "bouncedRecipients" \in DOMAIN Bounce)
    => /\ Len(normalized.events) = Len(Bounce["bouncedRecipients"])
       /\ BounceEvents

IsMetadataHeader(h) == h["name"] \in {"X-Metadata", "X-METADATA", "x-metadata"}

IsValidJson(s) == s \in {"{\"k\": \"v1\"}", "{\"k\": \"v2\"}", "{}"}

HasInvalidMetadata ==
    \E i \in 1..Len(Headers) :
        IsMetadataHeader(Headers[i]) /\ ~IsValidJson(Headers[i]["value"])

\* the object of the last x-metadata header that is valid JSON; {} if none
LastValidMetadata ==
    LET valid == {i \in 1..Len(Headers) :
                    IsMetadataHeader(Headers[i]) /\ IsValidJson(Headers[i]["value"])}
    IN IF valid = {} THEN EmptyDict
       ELSE LET last == CHOOSE i \in valid : \A j \in valid : j <= i
            IN CASE Headers[last]["value"] = "{\"k\": \"v1\"}" -> [k |-> "v1"]
                 [] Headers[last]["value"] = "{\"k\": \"v2\"}" -> [k |-> "v2"]
                 [] OTHER -> EmptyDict

\* the values of the x-tag headers, in order
RECURSIVE TagsFrom(_)
TagsFrom(i) ==
    IF i > Len(Headers) THEN <<>>
    ELSE IF Headers[i]["name"] \in {"X-Tag", "x-tag"}
    THEN <<Headers[i]["value"]>> \o TagsFrom(i + 1)
    ELSE TagsFrom(i + 1)

\* C8, as amended: an x-metadata header whose value is not valid JSON is
\* skipped: every emitted event's metadata is the object of the last
\* x-metadata header that is valid JSON ({} when there is none), its tags are
\* the x-tag values in order, and normalization raises nothing as long as the
\* fields the subtype requires are present.
C8_InvalidMetadataSkipped ==
    (Normalized /\ HasInvalidMetadata)
    => /\ RequiredPresent => normalized.exc = "none"
       /\ \A i \in 1..Len(normalized.events) :
            /\ normalized.events[i].metadata = LastValidMetadata
            /\ normalized.events[i].tags = TagsFrom(1)

C8_Witness ==
    /\ Normalized /\ HasInvalidMetadata
    /\ Len(Headers) = 2 /\ ~IsValidJson(Headers[2]["value"])
    /\ IsMetadataHeader(Headers[2])
    /\ Len(normalized.events) = 2
    /\ normalized.events[1].metadata = [k |-> "v1"]

\* C8, as stated: with an x-metadata header whose value is not valid JSON,
\* every emitted event has metadata = {}, whatever other x-metadata headers
\* there are.
C8_InvalidMetadataEmpties ==
    (Normalized /\ HasInvalidMetadata)
    => /\ RequiredPresent => normalized.exc = "none"
       /\ \A i \in 1..Len(normalized.events) :
            normalized.events[i].metadata = EmptyDict

\* C9: a notification whose subtype is none of the eight known ones
\* (case-sensitive; the sentinel when neither field is present) is normalized
\* without error to one event per address of the mail's destination list, in
\* order, each UNKNOWN, without reject_reason, with the subtype quoted in its
\* description.
C9_UnknownSubtype ==
    (Normalized /\ Subtype \notin EventTypes)
    => /\ normalized.exc = "none"
       /\ Len(normalized.events) = Len(Destination)
       /\ \A i \in 1..Len(Destination) :
            /\ normalized.events[i].recipient = Destination[i]
            /\ normalized.events[i].event_type = "UNKNOWN"
            /\ normalized.events[i].reject_reason = None
            /\ normalized.events[i].description =
                 "Unknown SES eventType '" \o Subtype \o "'"

C9_Witness ==
    /\ Normalized /\ Subtype = "bounce" /\ "bounce" \in DOMAIN ses_event
    /\ Len(Destination) = 2
    /\ Len(normalized.events) = 2
    /\ normalized.events[2].description = "Unknown SES eventType 'bounce'"

====
